---------------------------- MODULE Spec2Model ----------------------------
(***************************************************************************)
(* .buildkite/pipelines/build_macos.json.py: the generator of the MacOS    *)
(* build pipeline.  One invocation parses three command-line flags,        *)
(* builds one step record per (arch, build_type) pair of                   *)
(* product(archs, cur_build_types) and prints the pipeline as JSON.        *)
(*                                                                         *)
(* The model runs invocations one after the other.  Each invocation is a   *)
(* fresh interpreter process; what it wrote and how it exited is kept in   *)
(* `history` when the process is reaped, so that two invocations can be    *)
(* compared.                                                               *)
(***************************************************************************)
EXTENDS Naturals, Sequences, FiniteSets

VARIABLES
    pc,               \* position of the process: idle, parse_args, main, loop, exited
    argv,             \* the command line of the running process
    args,             \* the argparse Namespace (line 111)
    cur_build_types,  \* main's local (lines 54-56)
    pairs,            \* what the product(...) iterator of line 58 still yields
    pipeline_steps,   \* main's local (line 53)
    stdout,           \* text the process has written to standard output
    stderr,           \* what the process has reported on standard error
    exit_code,        \* exit status, meaningful once pc = "exited"
    history           \* the finished invocations, oldest first

vars == <<pc, argv, args, cur_build_types, pairs, pipeline_steps,
          stdout, stderr, exit_code, history>>

\* Number of invocations run one after the other.
MaxRuns == 2

-----------------------------------------------------------------------------
(* Python values: str, list and dict (insertion-ordered).  All three share  *)
(* one record shape; a dict's items are <<key, value>> pairs in insertion   *)
(* order, a list's items are values.                                        *)

Str(s) == [t |-> "str", s |-> s, items |-> <<>>]
List(items) == [t |-> "list", s |-> "", items |-> items]
Dict(items) == [t |-> "dict", s |-> "", items |-> items]

\* k in d
HasKey(d, k) == \E i \in 1..Len(d.items) : d.items[i][1] = k

\* d[k], for a key the dict holds
GetItem(d, k) == d.items[CHOOSE i \in 1..Len(d.items) : d.items[i][1] = k][2]

-----------------------------------------------------------------------------
(* The module-level tables, lines 23-50.                                    *)

archs == <<"aarch64">>

build_types == <<"RelWithDebInfo">>

actions == <<"build", "debug">>

agents ==
    Dict(<< <<"aarch64",
              Dict(<< <<"provider", Str("orka")>>,
                      <<"image", Str("ml-macos-13-arm-004.orkasi")>> >>)>> >>)

envs ==
    Dict(<< <<"aarch64",
              Dict(<< <<"TMPDIR", Str("/tmp")>>,
                      <<"HOMEBREW_PREFIX", Str("/opt/homebrew")>>,
                      <<"PATH", Str("/opt/homebrew/bin:$PATH")>>,
                      <<"ML_DEBUG", Str("0")>>,
                      <<"CPP_CROSS_COMPILE", Str("")>>,
                      <<"CMAKE_FLAGS",
                        Str("-DCMAKE_TOOLCHAIN_FILE=cmake/darwin-aarch64.cmake")>>,
                      <<"RUN_TESTS", Str("true")>>,
                      <<"BOOST_TEST_OUTPUT_FORMAT_FLAGS",
                        Str("--logger=JUNIT,error,boost_test_results.junit")>> >>)>> >>)

-----------------------------------------------------------------------------
(* json.dumps(pipeline, indent=2), line 89: strings are quoted with " and   *)
(* \ escaped (the tables hold printable ASCII only), containers are laid    *)
(* out one item per line, indented two spaces per nesting level, items      *)
(* separated by "," and keys from values by ": ".                           *)

EscapeChar(c) ==
    IF c = "\"" THEN "\\\""
    ELSE IF c = "\\" THEN "\\\\"
    ELSE c

RECURSIVE Escape(_)
Escape(s) ==
    IF Len(s) = 0 THEN ""
    ELSE EscapeChar(SubSeq(s, 1, 1)) \o Escape(SubSeq(s, 2, Len(s)))

Quoted(s) == "\"" \o Escape(s) \o "\""

RECURSIVE Indent(_)
Indent(level) == IF level = 0 THEN "" ELSE "  " \o Indent(level - 1)

RECURSIVE Dumps(_, _)
RECURSIVE DumpItems(_, _, _, _)

\* the items of container v from the i-th on, one per line at `level`
DumpItems(v, i, level, sep) ==
    IF i > Len(v.items) THEN ""
    ELSE sep \o "\n" \o Indent(level)
         \o (IF v.t = "dict"
             THEN Quoted(v.items[i][1]) \o ": " \o Dumps(v.items[i][2], level)
             ELSE Dumps(v.items[i], level))
         \o DumpItems(v, i + 1, level, ",")

Dumps(v, level) ==
    IF v.t = "str" THEN Quoted(v.s)
    ELSE IF v.items = <<>> THEN (IF v.t = "dict" THEN "{}" ELSE "[]")
    ELSE (IF v.t = "dict" THEN "{" ELSE "[")
         \o DumpItems(v, 1, level + 1, "")
         \o "\n" \o Indent(level)
         \o (IF v.t = "dict" THEN "}" ELSE "]")


-----------------------------------------------------------------------------
(* The command line.  A flag that takes a value is either absent or given   *)
(* with one value; the values tried include one outside each choices list.  *)

Absent == "<absent>"

\* args.build_type when --build-type is not given (default=None, line 98)
None == "<None>"

BuildTypeValues == {"RelWithDebInfo", "Debug"}

ActionValues == {"build", "debug", "release"}

CommandLines ==
    [build_type : BuildTypeValues \cup {Absent},
     action : ActionValues \cup {Absent},
     build_aarch64 : BOOLEAN]

\* x in xs, for a list
InList(x, xs) == \E i \in 1..Len(xs) : xs[i] = x

\* choices=build_types (line 97): the value given to --build-type is checked
BuildTypeAccepted(cmd) ==
    cmd.build_type = Absent \/ InList(cmd.build_type, build_types)

\* faulty variant, not the script's behaviour: a parser that takes any --action value
ActionUnchecked(cmd) == TRUE

\* choices=actions (line 102): the value given to --action is checked
ActionAccepted(cmd) ==
    cmd.action = Absent \/ InList(cmd.action, actions)

\* parser.parse_args() succeeds (line 111)
Accepted(cmd) == BuildTypeAccepted(cmd) /\ ActionAccepted(cmd)

\* the Namespace parse_args returns: defaults None, "build" and False
Namespace(cmd) ==
    [build_type |-> IF cmd.build_type = Absent THEN None ELSE cmd.build_type,
     action |-> IF cmd.action = Absent THEN "build" ELSE cmd.action,
     build_aarch64 |-> cmd.build_aarch64]

\* no Namespace yet
NoArgs == [build_type |-> None, action |-> None, build_aarch64 |-> FALSE]

\* no process is running
NoCommand == [build_type |-> Absent, action |-> Absent, build_aarch64 |-> FALSE]

-----------------------------------------------------------------------------
(* main, lines 52-89.                                                       *)

\* faulty variant, not the script's behaviour: the list starts from what the previous invocation had built
StaleSteps ==
    IF history = <<>> THEN <<>> ELSE history[Len(history)].steps

\* pipeline_steps = [] (line 53)
NewPipelineSteps == <<>>

\* faulty variant, not the script's behaviour: the override is added to the fixed list instead of replacing it
SelectBuildTypesAdded(a) ==
    IF a.build_type # None THEN build_types \o <<a.build_type>> ELSE build_types

\* faulty variant, not the script's behaviour: main generates only when --build-aarch64 is given
SelectBuildTypesIfFlag(a) ==
    IF ~a.build_aarch64 THEN <<>>
    ELSE IF a.build_type # None THEN <<a.build_type>> ELSE build_types

\* lines 54-56: the build types this invocation generates for
SelectBuildTypes(a) ==
    IF a.build_type # None THEN <<a.build_type>> ELSE build_types

\* faulty variant, not the script's behaviour: the last element of ys is left out
PairsWithoutLast(x, ys) == [j \in 1..(Len(ys) - 1) |-> <<x, ys[j]>>]

\* the pairs <<x, y>> for one x, in the order of ys
PairsWith(x, ys) == [j \in 1..Len(ys) |-> <<x, ys[j]>>]

\* itertools.product(xs, ys): the rightmost list advances fastest
RECURSIVE product(_, _)
product(xs, ys) ==
    IF xs = <<>> THEN <<>>
    ELSE PairsWith(Head(xs), ys) \o product(Tail(xs), ys)

\* line 60
Label(arch, build_type) ==
    "Build & test :cpp: for MacOS-" \o arch \o "-" \o build_type \o " :macos:"

\* line 64
DebugCommand(action) ==
    "if [[ \"" \o action \o "\" == \"debug\" ]]; then export ML_DEBUG=1; fi"

\* faulty variant, not the script's behaviour: the script first, the conditional second
CommandsSwapped(a) ==
    List(<<Str(".buildkite/scripts/steps/build_and_test.sh"),
           Str(DebugCommand(a.action))>>)

\* lines 63-66
Commands(a) ==
    List(<<Str(DebugCommand(a.action)),
           Str(".buildkite/scripts/steps/build_and_test.sh")>>)

\* faulty variant, not the script's behaviour: a key that leaves the build type out
KeyWithoutBuildType(arch, build_type) == "build_test_macos-" \o arch

\* line 68
Key(arch, build_type) == "build_test_macos-" \o arch \o "-" \o build_type

\* line 80
Context(arch, build_type) ==
    "Build and test on MacOS " \o arch \o " " \o build_type

\* faulty variant, not the script's behaviour: an environment whose ML_DEBUG follows the action
StepEnvByAction(arch) ==
    LET env == GetItem(envs, arch)
    IN  Dict([i \in 1..Len(env.items) |->
                 IF env.items[i][1] = "ML_DEBUG" /\ args.action = "debug"
                 THEN <<"ML_DEBUG", Str("1")>>
                 ELSE env.items[i]])

\* "env": envs[arch] (line 69)
StepEnv(arch) == GetItem(envs, arch)

\* faulty variant, not the script's behaviour: a worker that is not in the agents table
StepAgentsOther(arch) == Dict(<< <<"provider", Str("gcp")>> >>)

\* "agents": agents[arch] (line 62)
StepAgents(arch) == GetItem(agents, arch)

\* the dict appended at lines 59-84
StepRecord(a, arch, build_type) ==
    Dict(<< <<"label", Str(Label(arch, build_type))>>,
            <<"timeout_in_minutes", Str("300")>>,
            <<"agents", StepAgents(arch)>>,
            <<"commands", Commands(a)>>,
            <<"depends_on", Str("check_style")>>,
            <<"key", Str(Key(arch, build_type))>>,
            <<"env", StepEnv(arch)>>,
            <<"artifact_paths",
              Str("*/**/unittest/boost_test_results.junit;*/**/unittest/ml_test_*")>>,
            <<"plugins",
              Dict(<< <<"test-collector#v1.2.0",
                        Dict(<< <<"files", Str("*/*/unittest/boost_test_results.junit")>>,
                                <<"format", Str("junit")>> >>)>> >>)>>,
            <<"notify",
              List(<<Dict(<< <<"github_commit_status",
                               Dict(<< <<"context",
                                         Str(Context(arch, build_type))>> >>)>> >>)>>)>> >>)

\* agents[arch] and envs[arch] both find their key (lines 62 and 69)
LookupsHit(arch) == HasKey(agents, arch) /\ HasKey(envs, arch)

\* faulty variant, not the script's behaviour: the step is appended twice
AppendStepTwice(steps, step) == Append(Append(steps, step), step)

\* pipeline_steps.append(step) (line 59)
AppendStep(steps, step) == Append(steps, step)

\* lines 86-88
Pipeline(steps) == Dict(<< <<"steps", List(steps)>> >>)

\* what print(json.dumps(pipeline, indent=2)) writes (line 89)
Printed(steps) == Dumps(Pipeline(steps), 0) \o "\n"

-----------------------------------------------------------------------------
(* The invocations.                                                         *)

Init ==
    /\ pc = "idle"
    /\ argv = NoCommand
    /\ args = NoArgs
    /\ cur_build_types = <<>>
    /\ pairs = <<>>
    /\ pipeline_steps = <<>>
    /\ stdout = ""
    /\ stderr = ""
    /\ exit_code = 0
    /\ history = <<>>

\* the script is started with command line cmd; the interpreter runs the
\* module level down to line 111
Exec(cmd) ==
    /\ pc = "idle"
    /\ Len(history) < MaxRuns
    /\ pc' = "parse_args"
    /\ argv' = cmd
    /\ UNCHANGED <<args, cur_build_types, pairs, pipeline_steps,
                   stdout, stderr, exit_code, history>>

\* line 111, every value among its choices: on to main(args), line 113
ParseArgsOk ==
    /\ pc = "parse_args"
    /\ Accepted(argv)
    /\ args' = Namespace(argv)
    /\ pc' = "main"
    /\ UNCHANGED <<argv, cur_build_types, pairs, pipeline_steps,
                   stdout, stderr, exit_code, history>>

\* line 111, a value outside its choices: parser.error() prints the usage
\* and the message on standard error and exits with status 2
ParseArgsError ==
    /\ pc = "parse_args"
    /\ ~Accepted(argv)
    /\ stderr' = "usage"
    /\ exit_code' = 2
    /\ pc' = "exited"
    /\ UNCHANGED <<argv, args, cur_build_types, pairs, pipeline_steps,
                   stdout, history>>

\* lines 53-58: the locals, and the product iterator of the for statement
MainEntry ==
    /\ pc = "main"
    /\ pipeline_steps' = NewPipelineSteps
    /\ cur_build_types' = SelectBuildTypes(args)
    /\ pairs' = product(archs, SelectBuildTypes(args))
    /\ pc' = "loop"
    /\ UNCHANGED <<argv, args, stdout, stderr, exit_code, history>>

\* one iteration of the for statement, lines 58-84; a failed lookup raises
\* KeyError, which nothing catches: traceback on standard error, status 1
LoopStep ==
    /\ pc = "loop"
    /\ pairs # <<>>
    /\ LET arch == Head(pairs)[1]
           build_type == Head(pairs)[2]
       IN  IF LookupsHit(arch)
           THEN /\ pipeline_steps' =
                       AppendStep(pipeline_steps, StepRecord(args, arch, build_type))
                /\ pairs' = Tail(pairs)
                /\ UNCHANGED <<pc, stderr, exit_code>>
           ELSE /\ stderr' = "KeyError"
                /\ exit_code' = 1
                /\ pc' = "exited"
                /\ UNCHANGED <<pairs, pipeline_steps>>
    /\ UNCHANGED <<argv, args, cur_build_types, stdout, history>>

\* the iterator is exhausted: lines 86-89, then the interpreter exits
PrintPipeline ==
    /\ pc = "loop"
    /\ pairs = <<>>
    /\ stdout' = stdout \o Printed(pipeline_steps)
    /\ exit_code' = 0
    /\ pc' = "exited"
    /\ UNCHANGED <<argv, args, cur_build_types, pairs, pipeline_steps,
                   stderr, history>>

\* what is left of a finished process: its command line, its output, its
\* status, and the steps it had built
Finished ==
    [argv |-> argv, stdout |-> stdout, stderr |-> stderr,
     exit_code |-> exit_code, steps |-> pipeline_steps]

\* the process is gone, and with it everything it held in memory
Reap ==
    /\ pc = "exited"
    /\ history' = Append(history, Finished)
    /\ pc' = "idle"
    /\ argv' = NoCommand
    /\ args' = NoArgs
    /\ cur_build_types' = <<>>
    /\ pairs' = <<>>
    /\ pipeline_steps' = <<>>
    /\ stdout' = ""
    /\ stderr' = ""
    /\ exit_code' = 0

Next ==
    \/ \E cmd \in CommandLines : Exec(cmd)
    \/ ParseArgsOk
    \/ ParseArgsError
    \/ MainEntry
    \/ LoopStep
    \/ PrintPipeline
    \/ Reap

Spec == Init /\ [][Next]_vars

-----------------------------------------------------------------------------
(* What the properties below speak of.                                      *)

\* the invocations that have ended: the reaped ones and, once it has
\* exited, the running one
Runs == history \o (IF pc = "exited" THEN <<Finished>> ELSE <<>>)

\* a command line whose values are all among the choices
ValidCommand(cmd) ==
    /\ cmd.build_type = Absent \/ InList(cmd.build_type, build_types)
    /\ cmd.action \in {Absent, "build", "debug"}

\* the selected build types, read off the command line
SelectedTypes(cmd) ==
    IF cmd.build_type = Absent THEN build_types ELSE <<cmd.build_type>>

\* the selected action, read off the command line
SelectedAction(cmd) == IF cmd.action = Absent THEN "build" ELSE cmd.action

\* the architecture and the build type of the pair at position i (from 1)
\* of the architecture-major order over n build types
ArchAt(i, n) == archs[((i - 1) \div n) + 1]
TypeAt(i, types) == types[((i - 1) % Len(types)) + 1]

\* the keys of a dict, in insertion order
Keys(d) == [i \in 1..Len(d.items) |-> d.items[i][1]]

\* step[k].s for a step record
Field(step, k) == GetItem(step, k).s

-----------------------------------------------------------------------------
\* C1: every valid invocation ends with |archs| x |selected build types|
\* step records: one with --build-type, |build_types| without it.
C1_StepCount ==
    \A k \in 1..Len(Runs) :
        LET run == Runs[k]
        IN  ValidCommand(run.argv) =>
                /\ Len(run.steps) = Len(archs) * Len(SelectedTypes(run.argv))
                /\ run.argv.build_type # Absent => Len(run.steps) = 1
                /\ run.argv.build_type = Absent =>
                       Len(run.steps) = Len(build_types)

\* one run with the override and one without have both ended
C1_Witness ==
    \E i, j \in 1..Len(Runs) :
        /\ Runs[i].argv.build_type = "RelWithDebInfo"
        /\ Runs[j].argv.build_type = Absent
        /\ ValidCommand(Runs[i].argv) /\ ValidCommand(Runs[j].argv)
        /\ Len(Runs[i].steps) = 1 /\ Len(Runs[j].steps) = 1

\* C2: an invocation with an --action or a --build-type value outside the
\* choices never enters main, builds no step, writes nothing to standard
\* output, and exits with a non-zero status.
C2_InvalidRejected ==
    /\ (pc # "idle" /\ ~ValidCommand(argv)) =>
           /\ pc \in {"parse_args", "exited"}
           /\ pipeline_steps = <<>>
           /\ stdout = ""
    /\ \A k \in 1..Len(Runs) :
           ~ValidCommand(Runs[k].argv) =>
               /\ Runs[k].exit_code # 0
               /\ Runs[k].stdout = ""
               /\ Runs[k].steps = <<>>

\* a run with --action release and a run with --build-type Debug have
\* both been rejected
C2_Witness ==
    \E i, j \in 1..Len(Runs) :
        /\ Runs[i].argv.action = "release"
        /\ Runs[i].argv.build_type # "Debug"
        /\ Runs[j].argv.build_type = "Debug"
        /\ Runs[j].argv.action # "release"
        /\ Runs[i].exit_code = 2 /\ Runs[j].exit_code = 2
        /\ Runs[i].stderr = "usage" /\ Runs[j].stderr = "usage"

\* C3: two valid runs that differ only in --build-aarch64 build the same
\* steps and write the same output.
C3_FlagInert ==
    \A i, j \in 1..Len(Runs) :
        ( /\ ValidCommand(Runs[i].argv)
          /\ Runs[i].argv.build_type = Runs[j].argv.build_type
          /\ Runs[i].argv.action = Runs[j].argv.action
          /\ Runs[i].argv.build_aarch64 # Runs[j].argv.build_aarch64 )
        => /\ Runs[i].steps = Runs[j].steps
           /\ Runs[i].stdout = Runs[j].stdout
           /\ Runs[i].exit_code = Runs[j].exit_code

\* a run with the flag and a run without it, otherwise alike, have both
\* printed a pipeline
C3_Witness ==
    \E i, j \in 1..Len(Runs) :
        /\ ValidCommand(Runs[i].argv)
        /\ Runs[i].argv.build_type = Runs[j].argv.build_type
        /\ Runs[i].argv.action = Runs[j].argv.action
        /\ Runs[i].argv.build_aarch64 /\ ~Runs[j].argv.build_aarch64
        /\ Runs[i].steps # <<>> /\ Runs[i].stdout # ""
        /\ Runs[j].steps # <<>> /\ Runs[j].stdout # ""

\* the first command for each action, as the shell will read it
FirstCommandText(action) ==
    IF action = "debug"
    THEN "if [[ \"debug\" == \"debug\" ]]; then export ML_DEBUG=1; fi"
    ELSE "if [[ \"build\" == \"debug\" ]]; then export ML_DEBUG=1; fi"

\* C4: every step's commands are exactly the ML_DEBUG conditional with the
\* selected action interpolated, then the build-and-test script; the test
\* of the conditional compares "debug" with "debug" only when the action
\* is debug.
C4_Commands ==
    \A k \in 1..Len(Runs) : \A i \in 1..Len(Runs[k].steps) :
        LET commands == GetItem(Runs[k].steps[i], "commands")
        IN  /\ commands.t = "list"
            /\ Len(commands.items) = 2
            /\ commands.items[1] =
                   Str(FirstCommandText(SelectedAction(Runs[k].argv)))
            /\ commands.items[2] =
                   Str(".buildkite/scripts/steps/build_and_test.sh")

\* a debug run and a build run have both built a step
C4_Witness ==
    \E i, j \in 1..Len(Runs) :
        /\ Runs[i].argv.action = "debug" /\ Runs[i].steps # <<>>
        /\ Runs[j].argv.action \in {Absent, "build"} /\ Runs[j].steps # <<>>
        /\ Runs[i].argv.build_type = "RelWithDebInfo"

\* C5: a valid run has, for every pair of archs x selected build types, a
\* step with the label, key and depends_on of that pair; a run with no
\* flags has one step per build type, labelled and keyed for
\* aarch64-RelWithDebInfo.
C5_LabelKey ==
    \A k \in 1..Len(Runs) :
        LET run == Runs[k]
            types == SelectedTypes(run.argv)
        IN  ValidCommand(run.argv) =>
            /\ \A a \in 1..Len(archs) : \A b \in 1..Len(types) :
                   \E i \in 1..Len(run.steps) :
                       /\ Field(run.steps[i], "label") =
                              "Build & test :cpp: for MacOS-" \o archs[a]
                                  \o "-" \o types[b] \o " :macos:"
                       /\ Field(run.steps[i], "key") =
                              "build_test_macos-" \o archs[a] \o "-" \o types[b]
                       /\ Field(run.steps[i], "depends_on") = "check_style"
            /\ run.argv = NoCommand =>
                   /\ Len(run.steps) = Len(build_types)
                   /\ \E i \in 1..Len(run.steps) :
                          /\ Field(run.steps[i], "label") =
                                 "Build & test :cpp: for MacOS-aarch64-RelWithDebInfo :macos:"
                          /\ Field(run.steps[i], "key") =
                                 "build_test_macos-aarch64-RelWithDebInfo"
                          /\ Field(run.steps[i], "depends_on") = "check_style"

\* a run with no flags has printed its pipeline
C5_Witness ==
    \E k \in 1..Len(Runs) :
        /\ Runs[k].argv = NoCommand
        /\ Runs[k].exit_code = 0
        /\ Len(Runs[k].steps) = 1
        /\ Runs[k].stdout # ""

\* the steps are those of the first Len(steps) pairs of the
\* architecture-major, build-type-minor order over `types`
InProductOrder(steps, types) ==
    /\ Len(steps) <= Len(archs) * Len(types)
    /\ \A i \in 1..Len(steps) :
           /\ Field(steps[i], "key") =
                  "build_test_macos-" \o ArchAt(i, Len(types))
                      \o "-" \o TypeAt(i, types)
           /\ Field(steps[i], "label") =
                  "Build & test :cpp: for MacOS-" \o ArchAt(i, Len(types))
                      \o "-" \o TypeAt(i, types) \o " :macos:"

\* steps grows by one record at its end, or is left alone
OneAppended ==
    \/ pipeline_steps' = pipeline_steps
    \/ /\ Len(pipeline_steps') = Len(pipeline_steps) + 1
       /\ SubSeq(pipeline_steps', 1, Len(pipeline_steps)) = pipeline_steps

C8_LookupsHit ==
    /\ \A a \in 1..Len(archs) :
           HasKey(agents, archs[a]) /\ HasKey(envs, archs[a])
    /\ stderr # "KeyError"
    /\ pc = "loop" => \A p \in 1..Len(pairs) :
           HasKey(agents, pairs[p][1]) /\ HasKey(envs, pairs[p][1])
    /\ \A k \in 1..Len(Runs) :
           /\ Runs[k].stderr # "KeyError"
           /\ \A i \in 1..Len(Runs[k].steps) :
                  LET arch == ArchAt(i, Len(SelectedTypes(Runs[k].argv)))
                  IN  /\ GetItem(Runs[k].steps[i], "agents") = GetItem(agents, arch)
                      /\ GetItem(Runs[k].steps[i], "env") = GetItem(envs, arch)

\* a run has looked both tables up and ended with the step built
C8_Witness ==
    \E k \in 1..Len(Runs) :
        /\ Runs[k].exit_code = 0
        /\ Len(Runs[k].steps) = 1
        /\ GetItem(GetItem(Runs[k].steps[1], "agents"), "provider") = Str("orka")
        /\ GetItem(GetItem(Runs[k].steps[1], "env"), "TMPDIR") = Str("/tmp")

\* the two steps agree on everything but their first command
SameButFirstCommand(s1, s2) ==
    /\ Keys(s1) = Keys(s2)
    /\ \A f \in 1..Len(s1.items) :
           s1.items[f][1] # "commands" => s1.items[f] = s2.items[f]
    /\ Len(GetItem(s1, "commands").items) = Len(GetItem(s2, "commands").items)
    /\ \A c \in 2..Len(GetItem(s1, "commands").items) :
           GetItem(s1, "commands").items[c] = GetItem(s2, "commands").items[c]

\* C9: for one build-type selection, a build run and a debug run have the
\* same number of steps, which agree on every field but commands[0]; the
\* env of every step carries ML_DEBUG "0", in a debug run too.
C9_ActionFrame ==
    /\ \A i, j \in 1..Len(Runs) :
           ( /\ ValidCommand(Runs[i].argv) /\ ValidCommand(Runs[j].argv)
             /\ Runs[i].argv.build_type = Runs[j].argv.build_type )
           => /\ Len(Runs[i].steps) = Len(Runs[j].steps)
              /\ \A n \in 1..Len(Runs[i].steps) :
                     SameButFirstCommand(Runs[i].steps[n], Runs[j].steps[n])
    /\ \A k \in 1..Len(Runs) : \A n \in 1..Len(Runs[k].steps) :
           GetItem(GetItem(Runs[k].steps[n], "env"), "ML_DEBUG") = Str("0")

\* a build run and a debug run of the same selection have both built
\* their step, and the first commands differ
C9_Witness ==
    \E i, j \in 1..Len(Runs) :
        /\ Runs[i].argv.build_type = Runs[j].argv.build_type
        /\ SelectedAction(Runs[i].argv) = "build"
        /\ SelectedAction(Runs[j].argv) = "debug"
        /\ Len(Runs[i].steps) = 1 /\ Len(Runs[j].steps) = 1
        /\ GetItem(Runs[i].steps[1], "commands").items[1]
               # GetItem(Runs[j].steps[1], "commands").items[1]
        /\ GetItem(GetItem(Runs[j].steps[1], "env"), "ML_DEBUG") = Str("0")

-----------------------------------------------------------------------------
(* The text a run with no flags prints, as the script itself writes it:     *)
(* Dumps lays the pipeline out as json.dumps(indent=2) does.                *)

DefaultOutput ==
    "{\n" \o
    "  \"steps\": [\n" \o
    "    {\n" \o
    "      \"label\": \"Build & test :cpp: for MacOS-aarch64-RelWithDebInfo :macos:\",\n" \o
    "      \"timeout_in_minutes\": \"300\",\n" \o
    "      \"agents\": {\n" \o
    "        \"provider\": \"orka\",\n" \o
    "        \"image\": \"ml-macos-13-arm-004.orkasi\"\n" \o
    "      },\n" \o
    "      \"commands\": [\n" \o
    "        \"if [[ \\\"build\\\" == \\\"debug\\\" ]]; then export ML_DEBUG=1; fi\",\n" \o
    "        \".buildkite/scripts/steps/build_and_test.sh\"\n" \o
    "      ],\n" \o
    "      \"depends_on\": \"check_style\",\n" \o
    "      \"key\": \"build_test_macos-aarch64-RelWithDebInfo\",\n" \o
    "      \"env\": {\n" \o
    "        \"TMPDIR\": \"/tmp\",\n" \o
    "        \"HOMEBREW_PREFIX\": \"/opt/homebrew\",\n" \o
    "        \"PATH\": \"/opt/homebrew/bin:$PATH\",\n" \o
    "        \"ML_DEBUG\": \"0\",\n" \o
    "        \"CPP_CROSS_COMPILE\": \"\",\n" \o
    "        \"CMAKE_FLAGS\": \"-DCMAKE_TOOLCHAIN_FILE=cmake/darwin-aarch64.cmake\",\n" \o
    "        \"RUN_TESTS\": \"true\",\n" \o
    "        \"BOOST_TEST_OUTPUT_FORMAT_FLAGS\": \"--logger=JUNIT,error,boost_test_results.junit\"\n" \o
    "      },\n" \o
    "      \"artifact_paths\": \"*/**/unittest/boost_test_results.junit;*/**/unittest/ml_test_*\",\n" \o
    "      \"plugins\": {\n" \o
    "        \"test-collector#v1.2.0\": {\n" \o
    "          \"files\": \"*/*/unittest/boost_test_results.junit\",\n" \o
    "          \"format\": \"junit\"\n" \o
    "        }\n" \o
    "      },\n" \o
    "      \"notify\": [\n" \o
    "        {\n" \o
    "          \"github_commit_status\": {\n" \o
    "            \"context\": \"Build and test on MacOS aarch64 RelWithDebInfo\"\n" \o
    "          }\n" \o
    "        }\n" \o
    "      ]\n" \o
    "    }\n" \o
    "  ]\n" \o
    "}\n"

\* a run with no flags prints DefaultOutput, byte for byte
PrintsDefaultOutput ==
    \A k \in 1..Len(Runs) :
        (Runs[k].argv = NoCommand /\ Runs[k].exit_code = 0) =>
            Runs[k].stdout = DefaultOutput

=============================================================================
